---------------------------- MODULE Spec2Model ----------------------------
(***************************************************************************)
(* Model of src/app.py: the BlogEntry table, its EntryIndex full-text      *)
(* shadow table, the session, and the Flask handlers that read and write   *)
(* them.  Text is a sequence of one-character strings, so that slugs,      *)
(* query splitting and index tokenisation are computed character by        *)
(* character as re.sub, str.split and the FTS5 tokenizer compute them.     *)
(***************************************************************************)
EXTENDS Integers, Sequences, FiniteSets, TLC

VARIABLES
    blogentry,   \* the BlogEntry table: row i is the entry with id i
    entryindex,  \* the EntryIndex table: a set of rows [rowid, title, content]
    session,     \* the keys set in the Flask session
    clock,       \* datetime.datetime.utcnow(), advancing with each write request
    pc,          \* per worker thread: where the request it handles stands
    handler,     \* per worker thread: the view function it runs
    request,     \* per worker thread: the request's q / slug argument
    entry,       \* per worker thread: the BlogEntry instance the view holds
    idx_found,   \* per worker thread: whether EntryIndex.get found idx_entry
    result       \* per worker thread: the response (or the exception raised)

vars == <<blogentry, entryindex, session, clock, pc, handler, request, entry,
          idx_found, result>>

(***************************************************************************)
(* Bounds and inputs.                                                      *)
(***************************************************************************)
\* The number of write requests (create / edit POSTs) a behaviour holds;
\* the clock advances by one with each of them.
MaxClock == 3

\* Worker threads of the server.  A single active writer is thread 1 alone.
Threads == {1, 2}
SingleWriter == {1}

UpperCase == <<"A","B","C","D","E","F","G","H","I","J","K","L","M","N","O","P","Q","R","S","T","U","V","W","X","Y","Z">>
LowerCase == <<"a","b","c","d","e","f","g","h","i","j","k","l","m","n","o","p","q","r","s","t","u","v","w","x","y","z">>
Digits == <<"0","1","2","3","4","5","6","7","8","9">>

HelloTitle == <<"H","e","l","l","o",","," ","W","o","r","l","d","!">>
HelloAgainTitle == <<"h","e","l","l","o"," ","w","o","r","l","d","?">>
DogsTitle == <<"D","o","g","s">>
CatsContent == <<"f","i","r","s","t"," ","p","o","s","t"," ","a","b","o","u","t"," ","c","a","t","s">>
BarkContent == <<"d","o","g","s"," ","b","a","r","k">>

\* request.form['title'] and request.form['content'] of the posts submitted;
\* a form may also leave either empty.
Titles == {HelloTitle, HelloAgainTitle, DogsTitle}
Posts == {[title |-> HelloTitle, content |-> CatsContent],
          [title |-> HelloAgainTitle, content |-> BarkContent],
          [title |-> DogsTitle, content |-> BarkContent]}
\* The posts that concurrent writers submit.
ConcurrentPosts == {[title |-> HelloTitle, content |-> CatsContent],
                    [title |-> DogsTitle, content |-> BarkContent]}
Methods == {"GET", "POST"}

\* request.args.get('q')
QBlank == <<" "," "," ">>
QCats == <<"c","a","t","s">>
QDogs == <<"d","o","g","s">>
QCatsPost == <<" ","c","a","t","s"," "," ","p","o","s","t"," ">>
QHello == <<"H","e","l","l","o">>
Queries == {<<>>, QBlank, QCats, QDogs, QCatsPost, QHello}

\* app.config['ADMIN_PASSWORD'] and the passwords a login form may carry
ADMIN_PASSWORD == "secret"
Passwords == {"", "secret", "guess"}

(***************************************************************************)
(* Text functions.                                                         *)
(***************************************************************************)
Range(s) == {s[i] : i \in DOMAIN s}

UpperChars == Range(UpperCase)
AlnumChars == Range(UpperCase) \cup Range(LowerCase) \cup Range(Digits)
SpaceChars == {" ", "\t", "\n", "\r"}
LowerOf == [c \in UpperChars |->
               LowerCase[CHOOSE i \in DOMAIN UpperCase : UpperCase[i] = c]]

IsUpper(c) == c \in UpperChars
IsAlnum(c) == c \in AlnumChars
\* \w of the re module: letters, digits and the underscore
IsWord(c) == IsAlnum(c) \/ c = "_"
IsSpace(c) == c \in SpaceChars

\* str.lower(), one character
LowerChar(c) == IF IsUpper(c) THEN LowerOf[c] ELSE c

\* str.lower()
Lower(s) == [i \in DOMAIN s |-> LowerChar(s[i])]

\* re.sub(r'[^\w]+', '-', s): every maximal run of non-word characters
\* becomes one hyphen.  inRun: the previous character was part of such a run.
RECURSIVE SubNonWord(_, _)
SubNonWord(s, inRun) ==
    IF s = <<>> THEN <<>>
    ELSE IF IsWord(Head(s)) THEN <<Head(s)>> \o SubNonWord(Tail(s), FALSE)
    ELSE IF inRun THEN SubNonWord(Tail(s), TRUE)
    ELSE <<"-">> \o SubNonWord(Tail(s), TRUE)

\* A slug builder that also strips the hyphens left at the end.
BuildSlugStripped(title) ==
    LET s == SubNonWord(Lower(title), FALSE)
    IN  IF s # <<>> /\ s[Len(s)] = "-" THEN SubSeq(s, 1, Len(s) - 1) ELSE s

\* BlogEntry.__build_slug: the value assigned to self.slug
BuildSlug(title) == SubNonWord(Lower(title), FALSE)

\* The maximal runs of non-whitespace characters (alnum = FALSE) or of
\* alphanumeric characters (alnum = TRUE), in order; cur is the run being read.
RECURSIVE Runs(_, _, _)
Runs(s, cur, alnum) ==
    IF s = <<>> THEN (IF cur = <<>> THEN <<>> ELSE <<cur>>)
    ELSE IF (IF alnum THEN IsAlnum(Head(s)) ELSE ~IsSpace(Head(s)))
         THEN Runs(Tail(s), Append(cur, Head(s)), alnum)
    ELSE (IF cur = <<>> THEN <<>> ELSE <<cur>>) \o Runs(Tail(s), <<>>, alnum)

\* [word.strip() for word in query.split() if word.strip()]
SplitWords(query) == Runs(query, <<>>, FALSE)

\* The FTS5 tokenizer (unicode61): the case-folded maximal alphanumeric runs.
Tokens(text) == Range(Runs(Lower(text), <<>>, TRUE))

\* EntryIndex.match(' '.join(words)) on one row: a query of barewords is
\* their conjunction, each matched in any column.  (Queries holds letters
\* and whitespace only, so every word is one bareword.)
Match(row, words) ==
    LET indexed == Tokens(row.title) \cup Tokens(row.content)
    IN  \A i \in DOMAIN words : Tokens(words[i]) \subseteq indexed


(***************************************************************************)
(* The tables and their queries.                                           *)
(***************************************************************************)
\* A BlogEntry instance not yet stored: no id, no slug, no timestamp.
NoEntry == [id |-> 0, title |-> <<>>, slug |-> <<>>, content |-> <<>>,
            published |-> FALSE, timestamp |-> 0]
NoResult == [status |-> "none", ids |-> {}]

Ids == DOMAIN blogentry

\* The columns of a BlogEntry instance, as INSERT / UPDATE write them.
Row(e) == [title |-> e.title, slug |-> e.slug, content |-> e.content,
           published |-> e.published, timestamp |-> e.timestamp]

\* The instance a SELECT builds from row id.
Instance(id) == [id |-> id, title |-> blogentry[id].title,
                 slug |-> blogentry[id].slug, content |-> blogentry[id].content,
                 published |-> blogentry[id].published,
                 timestamp |-> blogentry[id].timestamp]

\* A uniqueness check that never objects.
SlugTakenNever(slug, id) == FALSE

\* slug = CharField(unique=True): another row already holds the slug.
SlugTaken(slug, id) == \E i \in Ids : i # id /\ blogentry[i].slug = slug

\* A save that derives the slug and the timestamp anew each time.
PrepareAlways(e, now) == [e EXCEPT !.slug = BuildSlug(e.title), !.timestamp = now]

\* BlogEntry.save, before the write: slug and timestamp are filled in when unset.
Prepare(e, now) ==
    [e EXCEPT !.slug = IF e.slug = <<>> THEN BuildSlug(e.title) ELSE e.slug,
              !.timestamp = IF e.timestamp = 0 THEN now ELSE e.timestamp]

\* A public listing that does not filter.
publicAll == DOMAIN blogentry

\* BlogEntry.public()
public == {id \in Ids : blogentry[id].published = TRUE}

\* BlogEntry.drafts()
drafts == {id \in Ids : blogentry[id].published = FALSE}

\* A search that does not filter on published.
searchUnfiltered(query) ==
    LET words == SplitWords(query)
    IN  IF words = <<>> THEN {id \in Ids : id = 0}
        ELSE {id \in Ids : \E row \in entryindex :
                  row.rowid = id /\ Match(row, words)}

\* A search that returns every entry when the query holds no word.
searchAllOnBlank(query) ==
    LET words == SplitWords(query)
    IN  IF words = <<>> THEN Ids
        ELSE {id \in Ids : blogentry[id].published = TRUE /\
                  \E row \in entryindex : row.rowid = id /\ Match(row, words)}

\* BlogEntry.search(query): the ids of the entries selected (the order, by
\* the index's rank, is left out).
search(query) ==
    LET words == SplitWords(query)
    IN  IF words = <<>> THEN {id \in Ids : id = 0}
        ELSE {id \in Ids : blogentry[id].published = TRUE /\
                  \E row \in entryindex : row.rowid = id /\ Match(row, words)}

\* session.get('logged_in')
logged_in == "logged_in" \in session

\* A detail lookup that selects among all entries, whatever the session.
detailAll(slug) == {id \in Ids : blogentry[id].slug = slug}

\* detail(slug): the entries get_object_or_404 chooses among; none is a 404.
detail(slug) ==
    {id \in (IF logged_in THEN Ids ELSE public) : blogentry[id].slug = slug}

\* The first row of a query result.
First(ids) == CHOOSE id \in ids : \A other \in ids : id <= other

\* The slugs a URL may name.
Slugs == {BuildSlug(title) : title \in Titles}

(***************************************************************************)
(* Initial state: empty tables, no session, every thread idle.             *)
(***************************************************************************)
Init ==
    /\ blogentry = <<>>
    /\ entryindex = {}
    /\ session = {}
    /\ clock = 1
    /\ pc = [t \in Threads |-> "idle"]
    /\ handler = [t \in Threads |-> "none"]
    /\ request = [t \in Threads |-> <<>>]
    /\ entry = [t \in Threads |-> NoEntry]
    /\ idx_found = [t \in Threads |-> FALSE]
    /\ result = [t \in Threads |-> NoResult]

\* Thread t ends its request with a response and touches no table.
Respond(t, h, arg, e, status, ids) ==
    /\ pc' = [pc EXCEPT ![t] = "done"]
    /\ handler' = [handler EXCEPT ![t] = h]
    /\ request' = [request EXCEPT ![t] = arg]
    /\ entry' = [entry EXCEPT ![t] = e]
    /\ result' = [result EXCEPT ![t] = [status |-> status, ids |-> ids]]
    /\ UNCHANGED <<blogentry, entryindex, session, clock, idx_found>>

(***************************************************************************)
(* login, logout                                                           *)
(***************************************************************************)
\* A GET of /login or /logout renders a template and sets nothing; the
\* actions are the POSTs.
login(password) ==
    /\ session' = IF password # "" /\ password = ADMIN_PASSWORD
                  THEN session \cup {"logged_in"}
                  ELSE session
    /\ UNCHANGED <<blogentry, entryindex, clock, pc, handler, request, entry,
                   idx_found, result>>

logout ==
    /\ session' = {}
    /\ UNCHANGED <<blogentry, entryindex, clock, pc, handler, request, entry,
                   idx_found, result>>

(***************************************************************************)
(* The read handlers.                                                      *)
(***************************************************************************)
\* login_required: a handler behind it redirects a session not logged in.
login_required(t, h) ==
    /\ pc[t] = "idle"
    /\ h \in {"drafts", "create", "edit"}
    /\ ~logged_in
    /\ Respond(t, h, <<>>, NoEntry, "redirect_login", {})

\* index(): the search when q is given and not empty, else the public list
\* (a listing is the set of its entries' ids; its order is left out).
index(t, q) ==
    /\ pc[t] = "idle"
    /\ Respond(t, "index", q, NoEntry, "200",
               IF q # <<>> THEN search(q) ELSE public)

drafts_view(t) ==
    /\ pc[t] = "idle"
    /\ logged_in
    /\ Respond(t, "drafts", <<>>, NoEntry, "200", drafts)

detail_view(t, slug) ==
    /\ pc[t] = "idle"
    /\ IF detail(slug) = {}
       THEN Respond(t, "detail", slug, NoEntry, "404", {})
       ELSE Respond(t, "detail", slug, Instance(First(detail(slug))), "200",
                    {First(detail(slug))})


(***************************************************************************)
(* create: the form check, then BlogEntry.create, whose save inserts the   *)
(* row and then synchronises the index.                                    *)
(***************************************************************************)
\* GET, or a POST without title or content: the form is rendered.
create_form(t, method, title, content) ==
    /\ pc[t] = "idle"
    /\ logged_in
    /\ method = "GET" \/ title = <<>> \/ content = <<>>
    /\ Respond(t, "create", <<>>, NoEntry, "render", {})

\* The INSERT violates the unique slug: IntegrityError leaves save before
\* update_search_index is called.
create_duplicate(t, title, content, published) ==
    LET e == Prepare([NoEntry EXCEPT !.title = title, !.content = content,
                                     !.published = published], clock)
    IN  /\ pc[t] = "idle"
        /\ logged_in
        /\ title # <<>> /\ content # <<>>
        /\ clock <= MaxClock
        /\ SlugTaken(e.slug, 0)
        /\ pc' = [pc EXCEPT ![t] = "done"]
        /\ handler' = [handler EXCEPT ![t] = "create"]
        /\ entry' = [entry EXCEPT ![t] = e]
        /\ result' = [result EXCEPT ![t] = [status |-> "IntegrityError", ids |-> {}]]
        /\ clock' = clock + 1
        /\ UNCHANGED <<blogentry, entryindex, session, request, idx_found>>

\* The INSERT succeeds: the row gets the next id.
create_insert(t, title, content, published) ==
    LET e == Prepare([NoEntry EXCEPT !.title = title, !.content = content,
                                     !.published = published], clock)
    IN  /\ pc[t] = "idle"
        /\ logged_in
        /\ title # <<>> /\ content # <<>>
        /\ clock <= MaxClock
        /\ ~SlugTaken(e.slug, 0)
        /\ blogentry' = Append(blogentry, Row(e))
        /\ pc' = [pc EXCEPT ![t] = "sync_get"]
        /\ handler' = [handler EXCEPT ![t] = "create"]
        /\ entry' = [entry EXCEPT ![t] = [e EXCEPT !.id = Len(blogentry) + 1]]
        /\ clock' = clock + 1
        /\ UNCHANGED <<entryindex, session, request, idx_found, result>>

(***************************************************************************)
(* edit: the entry is loaded by slug, its fields are set from the form,    *)
(* and entry.save() updates the row and then synchronises the index.       *)
(***************************************************************************)
edit_not_found(t, slug) ==
    /\ pc[t] = "idle"
    /\ logged_in
    /\ ~\E id \in Ids : blogentry[id].slug = slug
    /\ Respond(t, "edit", slug, NoEntry, "404", {})

edit_form(t, slug, method, title, content) ==
    /\ pc[t] = "idle"
    /\ logged_in
    /\ \E id \in Ids : blogentry[id].slug = slug
    /\ method = "GET" \/ title = <<>> \/ content = <<>>
    /\ Respond(t, "edit", slug,
               Instance(First({id \in Ids : blogentry[id].slug = slug})),
               "render", {})

\* get_object_or_404 and the three assignments from the form.
edit_load(t, slug, title, content, published) ==
    /\ pc[t] = "idle"
    /\ logged_in
    /\ \E id \in Ids : blogentry[id].slug = slug
    /\ title # <<>> /\ content # <<>>
    /\ clock <= MaxClock
    /\ pc' = [pc EXCEPT ![t] = "save"]
    /\ handler' = [handler EXCEPT ![t] = "edit"]
    /\ entry' = [entry EXCEPT ![t] =
           [Instance(First({id \in Ids : blogentry[id].slug = slug}))
               EXCEPT !.title = title, !.content = content,
                      !.published = published]]
    /\ clock' = clock + 1
    /\ UNCHANGED <<blogentry, entryindex, session, request, idx_found, result>>

\* BlogEntry.save of a stored entry: the UPDATE of its row.
save(t) ==
    LET e == Prepare(entry[t], clock)
    IN  /\ pc[t] = "save"
        /\ entry' = [entry EXCEPT ![t] = e]
        /\ IF SlugTaken(e.slug, e.id)
           THEN /\ pc' = [pc EXCEPT ![t] = "done"]
                /\ result' = [result EXCEPT ![t] =
                       [status |-> "IntegrityError", ids |-> {}]]
                /\ UNCHANGED blogentry
           ELSE /\ pc' = [pc EXCEPT ![t] = "sync_get"]
                /\ blogentry' = [blogentry EXCEPT ![e.id] = Row(e)]
                /\ UNCHANGED result
        /\ UNCHANGED <<entryindex, session, clock, handler, request, idx_found>>

(***************************************************************************)
(* update_search_index                                                     *)
(***************************************************************************)
\* EntryIndex.get(EntryIndex.rowid == self.id)
sync_get(t) ==
    /\ pc[t] = "sync_get"
    /\ idx_found' = [idx_found EXCEPT ![t] =
           \E row \in entryindex : row.rowid = entry[t].id]
    /\ pc' = [pc EXCEPT ![t] = "sync_write"]
    /\ UNCHANGED <<blogentry, entryindex, session, clock, handler, request,
                   entry, result>>

\* The row EntryIndex.create inserts.
IndexRow(e) == [rowid |-> e.id, title |-> e.title, content |-> e.content]

\* An update of the index row that leaves its content as it was.
UpdatedTitleOnly(row, e) == [row EXCEPT !.title = e.title]

\* An update of the index row that leaves its title as it was.
UpdatedContentOnly(row, e) == [row EXCEPT !.content = e.content]

\* idx_entry.content = ..., idx_entry.title = ...: the row idx_entry.save() writes.
Updated(row, e) == [row EXCEPT !.content = e.content, !.title = e.title]

\* except DoesNotExist: EntryIndex.create(...)
sync_create(t) ==
    /\ pc[t] = "sync_write"
    /\ ~idx_found[t]
    /\ ~\E row \in entryindex : row.rowid = entry[t].id
    /\ entryindex' = entryindex \cup {IndexRow(entry[t])}
    /\ pc' = [pc EXCEPT ![t] = "done"]
    /\ result' = [result EXCEPT ![t] = [status |-> "ok", ids |-> {}]]
    /\ UNCHANGED <<blogentry, session, clock, handler, request, entry, idx_found>>

\* EntryIndex.create when another save has inserted the rowid since the get:
\* the insert is refused.
sync_create_conflict(t) ==
    /\ pc[t] = "sync_write"
    /\ ~idx_found[t]
    /\ \E row \in entryindex : row.rowid = entry[t].id
    /\ pc' = [pc EXCEPT ![t] = "done"]
    /\ result' = [result EXCEPT ![t] = [status |-> "IntegrityError", ids |-> {}]]
    /\ UNCHANGED <<blogentry, entryindex, session, clock, handler, request,
                   entry, idx_found>>

\* else: idx_entry.save()
sync_update(t) ==
    /\ pc[t] = "sync_write"
    /\ idx_found[t]
    /\ entryindex' = {IF row.rowid = entry[t].id THEN Updated(row, entry[t])
                      ELSE row : row \in entryindex}
    /\ pc' = [pc EXCEPT ![t] = "done"]
    /\ result' = [result EXCEPT ![t] = [status |-> "ok", ids |-> {}]]
    /\ UNCHANGED <<blogentry, session, clock, handler, request, entry, idx_found>>

\* A failure that also undoes the row the save has written.
sync_fail_rollback(t) ==
    /\ pc[t] \in {"sync_get", "sync_write"}
    /\ blogentry' = IF handler[t] = "create"
                    THEN SubSeq(blogentry, 1, Len(blogentry) - 1)
                    ELSE [blogentry EXCEPT ![entry[t].id].title = <<>>]
    /\ pc' = [pc EXCEPT ![t] = "done"]
    /\ result' = [result EXCEPT ![t] = [status |-> "OperationalError", ids |-> {}]]
    /\ UNCHANGED <<entryindex, session, clock, handler, request, entry, idx_found>>

\* A statement of update_search_index raises (the storage refuses it): the
\* exception leaves save and the handler; nothing catches it.
sync_fail(t) ==
    /\ pc[t] \in {"sync_get", "sync_write"}
    /\ pc' = [pc EXCEPT ![t] = "done"]
    /\ result' = [result EXCEPT ![t] = [status |-> "OperationalError", ids |-> {}]]
    /\ UNCHANGED <<blogentry, entryindex, session, clock, handler, request,
                   entry, idx_found>>

\* The response is sent; the thread is free for the next request.
finish(t) ==
    /\ pc[t] = "done"
    /\ pc' = [pc EXCEPT ![t] = "idle"]
    /\ handler' = [handler EXCEPT ![t] = "none"]
    /\ request' = [request EXCEPT ![t] = <<>>]
    /\ entry' = [entry EXCEPT ![t] = NoEntry]
    /\ idx_found' = [idx_found EXCEPT ![t] = FALSE]
    /\ result' = [result EXCEPT ![t] = NoResult]
    /\ UNCHANGED <<blogentry, entryindex, session, clock>>

(***************************************************************************)
(* Specifications.                                                         *)
(***************************************************************************)
Session ==
    \/ \E password \in Passwords : login(password)
    \/ logout

\* The handlers that read: they answer from the tables and write nothing.
Read(t) ==
    \/ \E h \in {"drafts", "create", "edit"} : login_required(t, h)
    \/ \E q \in Queries : index(t, q)
    \/ drafts_view(t)
    \/ \E slug \in Slugs : detail_view(t, slug)
    \/ \E method \in Methods, title \in {<<>>, DogsTitle},
          content \in {<<>>, BarkContent} : create_form(t, method, title, content)
    \/ \E slug \in Slugs : edit_not_found(t, slug)
    \/ \E slug \in Slugs, method \in Methods, title \in {<<>>, DogsTitle},
          content \in {<<>>, BarkContent} :
           edit_form(t, slug, method, title, content)
    \/ finish(t)

\* The handlers that write, statement by statement, every statement succeeding.
Write(t, posts) ==
    \/ \E post \in posts, published \in BOOLEAN :
           create_duplicate(t, post.title, post.content, published)
    \/ \E post \in posts, published \in BOOLEAN :
           create_insert(t, post.title, post.content, published)
    \/ \E slug \in Slugs, post \in posts, published \in BOOLEAN :
           edit_load(t, slug, post.title, post.content, published)
    \/ save(t)
    \/ sync_get(t)
    \/ sync_create(t)
    \/ sync_update(t)
    \/ finish(t)

\* Concurrent writers: any interleaving of the statements of the threads'
\* create and edit requests, every statement but a refused insert succeeding.
Next ==
    \/ Session
    \/ \E t \in Threads : Write(t, ConcurrentPosts) \/ sync_create_conflict(t)

Spec == Init /\ [][Next]_vars

\* A single active writer, every statement succeeding.
NextSeq == Session \/ \E t \in SingleWriter : Read(t) \/ Write(t, Posts)

SpecSeq == Init /\ [][NextSeq]_vars

\* A single active writer, the index synchronisation failing at will.
NextSeqFail ==
    Session \/ \E t \in SingleWriter : Read(t) \/ Write(t, Posts) \/ sync_fail(t)

SpecSeqFail == Init /\ [][NextSeqFail]_vars

(***************************************************************************)
(* Properties.                                                             *)
(***************************************************************************)
\* No save is between its first and its last statement.
Quiescent == \A t \in Threads : pc[t] \in {"idle", "done"}

IndexRows(id) == {row \in entryindex : row.rowid = id}

InSync(id) ==
    \E row \in entryindex :
        /\ row.rowid = id
        /\ row.title = blogentry[id].title
        /\ row.content = blogentry[id].content

\* Thread t holds the response of an edit whose save returned.
EditSaved(t) ==
    pc[t] = "done" /\ handler[t] = "edit" /\ result[t].status = "ok"

\* C1: under a single writer whose statements all succeed, whenever no save
\* is under way every entry has exactly one index row with its id, and that
\* row carries the entry's current title and content.
C1_IndexSynchronized ==
    Quiescent =>
        \A id \in Ids : Cardinality(IndexRows(id)) = 1 /\ InSync(id)

\* An edit that changed the title of a stored entry has returned.
C1_Witness ==
    \E t \in Threads :
        /\ EditSaved(t)
        /\ blogentry[entry[t].id].slug # BuildSlug(blogentry[entry[t].id].title)
        /\ Cardinality(IndexRows(entry[t].id)) = 1

\* C2: in every reachable state, also between a save's write of the row and
\* its index synchronisation, no query makes search return an entry whose
\* stored published flag is false.
C2_SearchNeverReturnsDraft ==
    \A q \in Queries : \A id \in search(q) : blogentry[id].published = TRUE

\* A save has written an unpublished row and not yet synchronised the index,
\* whose row for that entry matches the query "cats".
C2_Witness ==
    \E t \in Threads :
        /\ pc[t] = "sync_get"
        /\ handler[t] = "edit"
        /\ blogentry[entry[t].id].published = FALSE
        /\ \E row \in IndexRows(entry[t].id) : Match(row, SplitWords(QCats))
        /\ entry[t].id \notin search(QCats)

SlugsDistinct ==
    \A i, j \in Ids : i # j => blogentry[i].slug # blogentry[j].slug

\* Thread t takes up a create whose slug a stored entry already has.
DuplicateCreate(t) ==
    /\ pc[t] = "idle"
    /\ pc'[t] # "idle"
    /\ handler'[t] = "create"
    /\ entry'[t].title # <<>>
    /\ \E i \in Ids : blogentry[i].slug = entry'[t].slug

\* C3: a create whose slug equals a stored entry's slug fails with the
\* duplicate error and leaves both tables as they were; slugs are pairwise
\* distinct in every reachable state.
C3_DuplicateSlugRejected ==
    /\ []SlugsDistinct
    /\ [][\A t \in Threads :
            DuplicateCreate(t) =>
                /\ pc'[t] = "done"
                /\ result'[t].status = "IntegrityError"
                /\ UNCHANGED <<blogentry, entryindex>>]_vars

\* A create was refused whose title differs from the title of the entry
\* holding the slug it normalises to.
C3_Witness ==
    \E t \in Threads :
        /\ pc[t] = "done"
        /\ handler[t] = "create"
        /\ result[t].status = "IntegrityError"
        /\ entry[t].title = HelloAgainTitle
        /\ \E i \in Ids :
               /\ blogentry[i].slug = entry[t].slug
               /\ blogentry[i].title = HelloTitle
               /\ InSync(i)

\* Thread t holds the failure of its index synchronisation.
SyncFailed(t) == pc[t] = "done" /\ result[t].status = "OperationalError"

\* C4: under a single writer, when a statement of the index synchronisation
\* fails the request ends in failure, the row written stays (it holds the new
\* title and content), the index is as it was before the save (no row on a
\* first save), and nothing is written again for the request.
C4_SyncFailureLeavesDivergence ==
    [][\A t \in SingleWriter :
        /\ (pc[t] \in {"sync_get", "sync_write"} /\
            result'[t].status = "OperationalError")
               => /\ pc'[t] = "done"
                  /\ UNCHANGED <<blogentry, entryindex>>
                  /\ blogentry[entry[t].id].title = entry[t].title
                  /\ blogentry[entry[t].id].content = entry[t].content
                  /\ handler[t] = "create" => IndexRows(entry[t].id) = {}
        /\ pc[t] \in {"save", "sync_get"} => UNCHANGED entryindex
        /\ SyncFailed(t)
               => /\ UNCHANGED <<blogentry, entryindex>>
                  /\ pc'[t] \in {"done", "idle"}]_vars

\* An edit's synchronisation failed: the row holds the new title, the index
\* row the old one.
C4_Witness ==
    \E t \in SingleWriter :
        /\ SyncFailed(t)
        /\ handler[t] = "edit"
        /\ blogentry[entry[t].id].title = entry[t].title
        /\ \E row \in IndexRows(entry[t].id) : row.title # entry[t].title

HelloSlug == <<"h","e","l","l","o","-","w","o","r","l","d">>
HelloSlugHyphen == <<"h","e","l","l","o","-","w","o","r","l","d","-">>

\* Thread t has created the entry titled "Hello, World!".
CreatedHello(t) ==
    /\ handler[t] = "create"
    /\ pc[t] \in {"sync_get", "sync_write", "done"}
    /\ entry[t].id # 0
    /\ entry[t].title = HelloTitle

\* C5 as stated: the entry created with the title "Hello, World!" and no
\* slug is stored with the slug hello-world.
C5_HelloSlugAsClaimed ==
    \A t \in Threads : CreatedHello(t) => blogentry[entry[t].id].slug = HelloSlug

\* C5 amended: the entry created with the title "Hello, World!" and no slug
\* is stored with the slug hello-world- (the final "!" is a run of non-word
\* characters too, and becomes a hyphen).
C5_HelloSlugHyphen ==
    \A t \in Threads :
        CreatedHello(t) => blogentry[entry[t].id].slug = HelloSlugHyphen

C5_Witness ==
    \E t \in Threads :
        CreatedHello(t) /\ pc[t] = "done" /\ result[t].status = "ok"

\* C6: under a single writer, every entry is in exactly one of the public
\* list and the drafts list, by its published flag; an entry that is
\* published and returned by a search is in neither the search nor the
\* public list, and is in the drafts, as soon as a save writes it
\* unpublished, and still when that save has returned.
C6_UnpublishMovesToDrafts ==
    /\ [](\A id \in Ids :
            /\ (id \in public) = (blogentry[id].published = TRUE)
            /\ (id \in drafts) = (blogentry[id].published = FALSE)
            /\ (id \in public) # (id \in drafts))
    /\ [](\A t \in Threads :
            (EditSaved(t) /\ entry[t].published = FALSE)
                => /\ \A q \in Queries : entry[t].id \notin search(q)
                   /\ entry[t].id \notin public
                   /\ entry[t].id \in drafts)
    /\ [][\A t \in Threads, q \in Queries :
            (/\ pc[t] = "save" /\ pc'[t] = "sync_get"
             /\ entry[t].published = FALSE
             /\ entry[t].id \in search(q)
             /\ entry[t].id \in public)
                => /\ entry[t].id \notin search(q)'
                   /\ entry[t].id \notin public'
                   /\ entry[t].id \in drafts']_vars

\* A save of an entry as unpublished has returned, and the entry's index
\* row still matches the query "cats".
C6_Witness ==
    \E t \in Threads :
        /\ EditSaved(t)
        /\ entry[t].published = FALSE
        /\ InSync(entry[t].id)
        /\ \E row \in IndexRows(entry[t].id) : Match(row, SplitWords(QCats))
        /\ entry[t].id \in drafts

\* C7: search returns no entry for the empty query and for a query of
\* whitespace only, whatever the tables hold, and so does the index handler
\* when it passes such a query on.
C7_BlankQueryIsEmpty ==
    /\ \A q \in {<<>>, QBlank} : search(q) = {}
    /\ \A t \in Threads :
           (pc[t] = "done" /\ handler[t] = "index" /\ request[t] = QBlank)
               => result[t].ids = {}

\* The index handler has answered a whitespace query while a published,
\* indexed entry is stored.
C7_Witness ==
    \E t \in Threads :
        /\ pc[t] = "done" /\ handler[t] = "index" /\ request[t] = QBlank
        /\ \E id \in public : InSync(id)

\* C8: no step changes the slug or the timestamp of a stored entry, and no
\* entry loses its id, whatever a save writes to title, content, published.
C8_SlugAndTimestampKept ==
    [][\A id \in Ids :
        /\ id \in DOMAIN blogentry'
        /\ blogentry'[id].slug = blogentry[id].slug
        /\ blogentry'[id].timestamp = blogentry[id].timestamp]_vars

\* An edit has returned that changed the title and the published flag of an
\* entry created earlier: its slug is not the slug of its title.
C8_Witness ==
    \E t \in Threads :
        /\ EditSaved(t)
        /\ blogentry[entry[t].id].title = entry[t].title
        /\ blogentry[entry[t].id].slug # BuildSlug(entry[t].title)
        /\ blogentry[entry[t].id].timestamp < clock - 1

\* C9: a detail request in a session that is not logged in, for the slug of
\* an unpublished entry, is answered not-found.
C9_DraftHiddenFromAnonymous ==
    [][\A t \in Threads :
        (/\ pc[t] = "idle" /\ pc'[t] = "done" /\ handler'[t] = "detail"
         /\ ~logged_in
         /\ \E id \in Ids : /\ blogentry[id].slug = request'[t]
                            /\ blogentry[id].published = FALSE)
            => result'[t].status = "404" /\ result'[t].ids = {}]_vars

\* After a logout, a detail request for a draft's slug was answered 404.
C9_Witness ==
    \E t \in Threads :
        /\ pc[t] = "done" /\ handler[t] = "detail" /\ result[t].status = "404"
        /\ ~logged_in
        /\ \E id \in Ids : /\ blogentry[id].slug = request[t]
                           /\ blogentry[id].published = FALSE

\* Two threads hold the responses of two saves of the same entry, which
\* wrote different titles or contents.
BothSaved(t1, t2) ==
    /\ t1 # t2
    /\ EditSaved(t1) /\ EditSaved(t2)
    /\ entry[t1].id = entry[t2].id
    /\ entry[t1].title # entry[t2].title \/ entry[t1].content # entry[t2].content

\* C10 as stated: once two saves of the same entry have returned, the index
\* row carries the stored row's title and content.
C10_ConcurrentSavesConverge ==
    \A t1, t2 \in Threads : BothSaved(t1, t2) => InSync(entry[t1].id)

\* The index row, or the stored row, carries what thread t's save wrote.
IndexHolds(t) ==
    \E row \in IndexRows(entry[t].id) :
        row.title = entry[t].title /\ row.content = entry[t].content

StoreHolds(t) ==
    /\ blogentry[entry[t].id].title = entry[t].title
    /\ blogentry[entry[t].id].content = entry[t].content

\* C10 amended: once two saves of the same entry have returned, the entry
\* has exactly one index row; that row carries the title and content of one
\* of the two saves and the stored row those of one of the two saves, not
\* necessarily the same one.
C10_ConcurrentSavesLastWriterEach ==
    \A t1, t2 \in Threads :
        BothSaved(t1, t2) =>
            /\ Cardinality(IndexRows(entry[t1].id)) = 1
            /\ IndexHolds(t1) \/ IndexHolds(t2)
            /\ StoreHolds(t1) \/ StoreHolds(t2)

\* Both saves have returned and the index row disagrees with the stored row.
C10_Witness ==
    \E t1, t2 \in Threads :
        /\ BothSaved(t1, t2)
        /\ IndexHolds(t1) /\ StoreHolds(t2)
        /\ ~InSync(entry[t1].id)


=============================================================================
